---- MODULE Spec2Model ----
(***************************************************************************)
(* Model of backup.py: the import -> decrypt -> backup -> read-only ->     *)
(* export pipeline run for a plugged-in disk, its notifications and its    *)
(* exception handling.                                                     *)
(*                                                                         *)
(* Texts (f-strings, argument vectors) are sequences of fragments: the     *)
(* literal parts of the f-string and the interpolated values, in order.    *)
(* A text "contains" a value when the value is one of its fragments.       *)
(* Optional values are sets: {} is None / unbound, {x} is the value x.     *)
(***************************************************************************)
EXTENDS Integers, Sequences, FiniteSets, TLC

VARIABLES pools, email, device_label, pc, trace, result, success, stdout, stderr, exc

vars == <<pools, email, device_label, pc, trace, result, success, stdout, stderr, exc>>

----------------------------------------------------------------------------
(* Bounds of the environment *)

\* external commands exit with a code in 0..MaxExitCode
MaxExitCode == 2
\* the backup engine reports 0..MaxFailedDatasets failed datasets
MaxFailedDatasets == 1

\* invocations of import_decrypt_backup_export
Runs == {1, 2}

----------------------------------------------------------------------------
(* Optional[T] *)

NONE == {}
Some(x) == {x}
Get(o) == CHOOSE x \in o : TRUE

\* Python truthiness of a str
Truthy(s) == s # ""

----------------------------------------------------------------------------
(* Configuration (AppConfig, PoolConfig) and the environment's answers *)

Labels == {"diskA", "diskB"}
KnownLabels == {"diskA"}
Passphrases == {NONE, Some(""), Some("hunter2"), Some("swordfish")}
ParamLists == {<<"offsite", "--verbose">>}
PoolConfigs == [passphrase : Passphrases, autobackup_parameters : ParamLists]
EmailConfigs == {NONE} \cup {Some([send_autobackup_output |-> b]) : b \in BOOLEAN}

\* what a failing command leaves on its stdout and stderr
CmdStreams == {[stdout |-> "", stderr |-> ""],
               [stdout |-> "partial output", stderr |-> "cannot open pool"]}
BackupStdouts == {"", "backup-out"}
BackupStderrs == {"", "backup-err"}
Exceptions == {[type |-> "OSError", msg |-> "No such file or directory"]}

\* what subprocess.run(..., check=True) can do: return (exit code 0), raise
\* CalledProcessError (nonzero exit code), or raise something else
SubprocessOutcomes ==
    {[kind |-> "ok", returncode |-> 0, stdout |-> "", stderr |-> ""]}
    \cup {[kind |-> "exit", returncode |-> c, stdout |-> s.stdout, stderr |-> s.stderr] :
             c \in 1..MaxExitCode, s \in CmdStreams}
    \cup {[kind |-> "raise", e |-> e] : e \in Exceptions}

\* what ZfsAutobackup(args).run() can do under the redirected streams
EngineOutcomes ==
    {[kind |-> "ok", failed_datasets |-> n, stdout |-> o, stderr |-> e] :
        n \in 0..MaxFailedDatasets, o \in BackupStdouts, e \in BackupStderrs}
    \cup {[kind |-> "raise", e |-> e] : e \in Exceptions}

----------------------------------------------------------------------------
(* Observable events of a run, in program order *)

Call(stage, argv, input) ==
    [kind |-> "call", stage |-> stage, argv |-> argv, input |-> input]
Ret(stage, returncode, out, err) ==
    [kind |-> "ret", stage |-> stage, returncode |-> returncode,
     stdout |-> out, stderr |-> err]
Raise(stage, e) ==
    [kind |-> "raise", stage |-> stage, e |-> e]
Log(level, text) ==
    [kind |-> "log", stage |-> "logger", level |-> level, text |-> text]
Mail(fn, stage, text) ==
    [kind |-> "mail", stage |-> stage, fn |-> fn, text |-> text, email |-> email]

Emit(r, evs) == trace' = [trace EXCEPT ![r] = @ \o evs]

----------------------------------------------------------------------------
(* Command wrappers *)

import_pool(pool) == Call("import", <<"zpool", "import", pool, "-N">>, NONE)
export_pool(pool) == Call("export", <<"zpool", "export", pool>>, NONE)
\* decrypt_pool that passes the passphrase as an argument of the command
decrypt_pool_AsArgument(pool, passphrase) ==
    Call("decrypt", <<"zfs", "load-key", pool, passphrase>>, NONE)

decrypt_pool(pool, passphrase) ==
    Call("decrypt", <<"zfs", "load-key", pool>>, Some(passphrase))
set_pool_readonly(pool) ==
    Call("readonly", <<"zfs", "set", "readonly=on", pool>>, NONE)

\* run_command that rebuilds the CompletedProcess without the captured streams
run_command_DropsStreams(call, o) ==
    IF o.kind = "ok"
    THEN [raised |-> FALSE,
          events |-> <<Ret(call.stage, 0, o.stdout, o.stderr)>>,
          result |-> [returncode |-> 0, stdout |-> o.stdout, stderr |-> o.stderr]]
    ELSE IF o.kind = "exit"
    THEN [raised |-> FALSE,
          events |-> <<Ret(call.stage, o.returncode, o.stdout, o.stderr),
                       Log("error", <<"An error occurred: Command '">> \o call.argv
                             \o <<"' returned non-zero exit status ",
                                  ToString(o.returncode), ".">>)>>,
          result |-> [returncode |-> o.returncode, stdout |-> "", stderr |-> ""]]
    ELSE [raised |-> TRUE,
          events |-> <<Raise(call.stage, o.e)>>,
          result |-> [returncode |-> 0, stdout |-> "", stderr |-> ""]]

\* run_command, after the process ended as o: the events it produces and what
\* the caller gets (a CompletedProcess, or the exception passing through)
run_command(call, o) ==
    IF o.kind = "ok"
    THEN [raised |-> FALSE,
          events |-> <<Ret(call.stage, 0, o.stdout, o.stderr)>>,
          result |-> [returncode |-> 0, stdout |-> o.stdout, stderr |-> o.stderr]]
    ELSE IF o.kind = "exit"
    THEN [raised |-> FALSE,
          events |-> <<Ret(call.stage, o.returncode, o.stdout, o.stderr),
                       Log("error", <<"An error occurred: Command '">> \o call.argv
                             \o <<"' returned non-zero exit status ",
                                  ToString(o.returncode), ".">>)>>,
          result |-> [returncode |-> o.returncode, stdout |-> o.stdout,
                      stderr |-> o.stderr]]
    ELSE [raised |-> TRUE,
          events |-> <<Raise(call.stage, o.e)>>,
          result |-> [returncode |-> 0, stdout |-> "", stderr |-> ""]]

\* run_zfs_autobackup that ignores the number of failed datasets
run_zfs_autobackup_IgnoresCount(o) ==
    [success |-> TRUE, stdout |-> o.stdout, stderr |-> o.stderr]

\* run_zfs_autobackup: (success, stdout, stderr) of an engine run that returned
run_zfs_autobackup(o) ==
    [success |-> (o.failed_datasets = 0), stdout |-> o.stdout, stderr |-> o.stderr]

----------------------------------------------------------------------------
(* Exceptions *)

\* exc[r] is the chain of exceptions in flight: the last one is the one being
\* handled, the ones before it are its __context__ chain
StrE(chain) == chain[Len(chain)].msg

RECURSIVE format_exc(_)
format_exc(chain) ==
    IF chain = <<>> THEN <<>>
    ELSE LET e == chain[Len(chain)]
             before == SubSeq(chain, 1, Len(chain) - 1)
         IN  (IF before = <<>> THEN <<>>
              ELSE format_exc(before) \o
                   <<"During handling of the above exception, another exception occurred:">>)
             \o <<"Traceback (most recent call last):", e.type, ": ", e.msg>>

\* what reading the never-assigned local stdout raises
UnboundLocalError ==
    [type |-> "UnboundLocalError",
     msg |-> "cannot access local variable 'stdout' where it is not associated with a value"]

\* HandlerFor as it would be with the call of decrypt_and_backup outside the
\* try block of the entry point
HandlerFor_CallOutsideTry(site) ==
    CASE site = "inner_try"     -> "inner_except"
      [] site = "outer_try"     -> "outer_except"
      [] OTHER                  -> "escaped"

\* where control goes when an exception is raised at a place of the code
HandlerFor(site) ==
    CASE site = "inner_try"     -> "inner_except"
      [] site = "outer_try"     -> "outer_except"
      [] site = "inner_except"  -> "outer_except"
      [] OTHER                  -> "escaped"

----------------------------------------------------------------------------
(* Texts of the notifications and log lines *)

Unexpected == "An unexpected error occurred. Backup may have failed. Please investigate.\n\nError:\n"
Finished == "Backup finished. You can safely unplug the disk "
AutobackupError == "ZFS autobackup error! Disk will not be exported automatically"

\* Completion without the branch for a missing email configuration
Completion_NoLog(label, captured_output) ==
    IF email = NONE
    THEN <<>>
    ELSE IF Get(email).send_autobackup_output
    THEN <<Mail("mail", "complete",
                <<Finished, label, " now.\n\nZFS-Autobackup output:\n",
                  Get(captured_output)>>)>>
    ELSE <<Mail("mail", "complete", <<Finished, label, " now.">>)>>

\* Completion that embeds the output whatever send_autobackup_output says
Completion_AlwaysOutput(label, captured_output) ==
    IF email = NONE
    THEN <<Log("log", <<Finished, label, " now.">>)>>
    ELSE <<Mail("mail", "complete",
                <<Finished, label, " now.\n\nZFS-Autobackup output:\n",
                  Get(captured_output)>>)>>

\* lines 36-41: the completion message
Completion(label, captured_output) ==
    IF email = NONE
    THEN <<Log("log", <<Finished, label, " now.">>)>>
    ELSE IF Get(email).send_autobackup_output
    THEN <<Mail("mail", "complete",
                <<Finished, label, " now.\n\nZFS-Autobackup output:\n",
                  Get(captured_output)>>)>>
    ELSE <<Mail("mail", "complete", <<Finished, label, " now.">>)>>

\* BackupReport with the test of line 58 reduced to "if stderr"
BackupReport_OnlyStderr(res) ==
    IF Truthy(res.stderr)
    THEN IF email = NONE
         THEN <<Log("log", <<AutobackupError, ".">>)>>
         ELSE IF Get(email).send_autobackup_output
         THEN <<Mail("mail_error", "backup", <<AutobackupError, ":\n\n", res.stderr>>)>>
         ELSE <<Mail("mail_error", "backup",
                     <<AutobackupError, ". Check logs for details.">>)>>
    ELSE IF Truthy(res.stdout)
    THEN <<Log("log", <<res.stdout>>)>>
    ELSE <<>>

\* BackupReport that mails the output of a clean backup instead of logging it
BackupReport_MailsStdout(res) ==
    IF ~res.success \/ Truthy(res.stderr)
    THEN IF email = NONE
         THEN <<Log("log", <<AutobackupError, ".">>)>>
         ELSE IF Get(email).send_autobackup_output
         THEN <<Mail("mail_error", "backup",
                     <<AutobackupError, ":\n\n",
                       IF Truthy(res.stderr) THEN res.stderr ELSE res.stdout>>)>>
         ELSE <<Mail("mail_error", "backup",
                     <<AutobackupError, ". Check logs for details.">>)>>
    ELSE IF Truthy(res.stdout)
    THEN <<Mail("mail", "backup", <<res.stdout>>)>>
    ELSE <<>>

\* lines 58-66: what is reported about a backup that returned res
BackupReport(res) ==
    IF ~res.success \/ Truthy(res.stderr)
    THEN IF email = NONE
         THEN <<Log("log", <<AutobackupError, ".">>)>>
         ELSE IF Get(email).send_autobackup_output
         THEN <<Mail("mail_error", "backup",
                     <<AutobackupError, ":\n\n",
                       IF Truthy(res.stderr) THEN res.stderr ELSE res.stdout>>)>>
         ELSE <<Mail("mail_error", "backup",
                     <<AutobackupError, ". Check logs for details.">>)>>
    ELSE IF Truthy(res.stdout)
    THEN <<Log("log", <<res.stdout>>)>>
    ELSE <<>>

\* HasPassphrase with the test of line 49 reduced to "is not None"
HasPassphrase_NotNone(pool_config) ==
    pool_config.passphrase # NONE

\* line 49: is there a passphrase to load
HasPassphrase(pool_config) ==
    pool_config.passphrase # NONE /\ Truthy(Get(pool_config.passphrase))

\* line 27: captured_output is None
IsNone(captured_output) == captured_output = NONE

\* AfterDecryptAndBackup without the return of line 28
AfterDecryptAndBackup_NoReturn(captured_output) == "export"

\* AfterDecryptAndBackup that starts over when decrypt_and_backup gave nothing
AfterDecryptAndBackup_Retry(captured_output) ==
    IF captured_output = NONE THEN "import" ELSE "export"

\* AfterDecryptAndBackup with the test of line 27 written "if not captured_output"
AfterDecryptAndBackup_Falsy(captured_output) ==
    IF captured_output = NONE \/ ~Truthy(Get(captured_output))
    THEN "Aborted" ELSE "export"

\* lines 26-30: where the run goes once decrypt_and_backup has returned
AfterDecryptAndBackup(captured_output) ==
    IF IsNone(captured_output) THEN "Aborted" ELSE "export"

----------------------------------------------------------------------------
(* The state machine *)

Init ==
    /\ pools \in [KnownLabels -> PoolConfigs]
    /\ email \in EmailConfigs
    /\ \E d \in Labels : device_label = [r \in Runs |-> d]
    /\ pc = [r \in Runs |-> IF r = 1 THEN "start" ELSE "idle"]
    /\ trace = [r \in Runs |-> <<>>]
    /\ result = [r \in Runs |-> NONE]
    /\ success = [r \in Runs |-> NONE]
    /\ stdout = [r \in Runs |-> NONE]
    /\ stderr = [r \in Runs |-> NONE]
    /\ exc = [r \in Runs |-> <<>>]

Goto(r, label) == pc' = [pc EXCEPT ![r] = label]

\* an exception e raised at a place of the code
Throw(r, site, e) ==
    /\ exc' = [exc EXCEPT ![r] = @ \o <<e>>]
    /\ Goto(r, HandlerFor(site))

\* Lookup that reports an unknown disk through mail_error
Lookup_AsError(r) ==
    /\ pc[r] = "start"
    /\ IF device_label[r] \notin DOMAIN pools
       THEN /\ Emit(r, <<Mail("mail_error", "lookup",
                    <<"Plugged in disk ", device_label[r],
                      " that is not matching any configuration. You can unplug it again safely.">>)>>)
            /\ Goto(r, "Aborted")
       ELSE /\ Emit(r, <<>>)
            /\ Goto(r, "import")
    /\ UNCHANGED <<pools, email, device_label, result, success, stdout, stderr, exc>>

\* lines 13-19: the configuration lookup
Lookup(r) ==
    /\ pc[r] = "start"
    /\ IF device_label[r] \notin DOMAIN pools
       THEN /\ Emit(r, <<Mail("mail", "lookup",
                    <<"Plugged in disk ", device_label[r],
                      " that is not matching any configuration. You can unplug it again safely.">>)>>)
            /\ Goto(r, "Aborted")
       ELSE /\ Emit(r, <<>>)
            /\ Goto(r, "import")
    /\ UNCHANGED <<pools, email, device_label, result, success, stdout, stderr, exc>>

\* lines 20-21: import_pool is invoked
ImportCall(r) ==
    /\ pc[r] = "import"
    /\ Emit(r, <<Log("log", <<"Importing pool ", device_label[r]>>),
                 import_pool(device_label[r])>>)
    /\ Goto(r, "import_wait")
    /\ UNCHANGED <<pools, email, device_label, result, success, stdout, stderr, exc>>

\* lines 21-24: import_pool ends
ImportReturn(r) ==
    /\ pc[r] = "import_wait"
    /\ \E o \in SubprocessOutcomes :
        LET rc == run_command(import_pool(device_label[r]), o) IN
        IF rc.raised
        THEN /\ result' = result
             /\ Emit(r, rc.events)
             /\ Throw(r, "outer_try", o.e)
        ELSE /\ exc' = exc
             /\ result' = [result EXCEPT ![r] = Some(rc.result)]
             /\ IF rc.result.returncode # 0
                THEN /\ Emit(r, rc.events \o
                          <<Mail("mail_error", "import",
                                 <<"Failed to import pool. Backup not yet run.\n\nError:\n",
                                   rc.result.stderr>>)>>)
                     /\ Goto(r, "Aborted")
                ELSE /\ Emit(r, rc.events)
                     /\ Goto(r, "decrypt_and_backup")
    /\ UNCHANGED <<pools, email, device_label, success, stdout, stderr>>

\* lines 49-51: a passphrase is configured, decrypt_pool is invoked
DecryptCall(r) ==
    /\ pc[r] = "decrypt_and_backup"
    /\ HasPassphrase(pools[device_label[r]])
    /\ Emit(r, <<Log("log", <<"Decrypting pool ", device_label[r]>>),
                 decrypt_pool(device_label[r], Get(pools[device_label[r]].passphrase))>>)
    /\ Goto(r, "decrypt_wait")
    /\ UNCHANGED <<pools, email, device_label, result, success, stdout, stderr, exc>>

\* lines 51-54: decrypt_pool ends
DecryptReturn(r) ==
    /\ pc[r] = "decrypt_wait"
    /\ \E o \in SubprocessOutcomes :
        LET rc == run_command(decrypt_pool(device_label[r],
                                  Get(pools[device_label[r]].passphrase)), o) IN
        IF rc.raised
        THEN /\ result' = result
             /\ Emit(r, rc.events)
             /\ Throw(r, "inner_try", o.e)
        ELSE /\ exc' = exc
             /\ result' = [result EXCEPT ![r] = Some(rc.result)]
             /\ IF rc.result.returncode # 0
                THEN /\ Emit(r, rc.events \o
                          <<Mail("mail_error", "decrypt",
                                 <<"Failed to decrypt pool. Backup not yet run.\n\nError:\n",
                                   rc.result.stderr>>)>>)
                     /\ Goto(r, AfterDecryptAndBackup(NONE))
                ELSE /\ Emit(r, rc.events)
                     /\ Goto(r, "backup")
    /\ UNCHANGED <<pools, email, device_label, success, stdout, stderr>>

\* lines 49, 56-57: no passphrase or the key is loaded; the engine is invoked
BackupCall(r) ==
    /\ \/ pc[r] = "backup"
       \/ pc[r] = "decrypt_and_backup" /\ ~HasPassphrase(pools[device_label[r]])
    /\ Emit(r, <<Log("log", <<"Starting ZFS-Autobackup for pool ", device_label[r],
                             " with parameters:\nzfs-autobackup ">>
                             \o pools[device_label[r]].autobackup_parameters),
                 Call("backup", pools[device_label[r]].autobackup_parameters, NONE)>>)
    /\ Goto(r, "backup_wait")
    /\ UNCHANGED <<pools, email, device_label, result, success, stdout, stderr, exc>>

\* lines 57-66: the engine ends
BackupReturn(r) ==
    /\ pc[r] = "backup_wait"
    /\ \E o \in EngineOutcomes :
        IF o.kind = "raise"
        THEN /\ Emit(r, <<Raise("backup", o.e)>>)
             /\ Throw(r, "inner_try", o.e)
             /\ UNCHANGED <<success, stdout, stderr>>
        ELSE LET res == run_zfs_autobackup(o) IN
             /\ success' = [success EXCEPT ![r] = Some(res.success)]
             /\ stdout' = [stdout EXCEPT ![r] = Some(res.stdout)]
             /\ stderr' = [stderr EXCEPT ![r] = Some(res.stderr)]
             /\ Emit(r, <<Ret("backup", o.failed_datasets, o.stdout, o.stderr)>> \o BackupReport(res))
             /\ Goto(r, "readonly")
             /\ exc' = exc
    /\ UNCHANGED <<pools, email, device_label, result>>

\* lines 68-69: set_pool_readonly is invoked
ReadonlyCall(r) ==
    /\ pc[r] = "readonly"
    /\ Emit(r, <<Log("log", <<"Setting pool ", device_label[r], " to read-only">>),
                 set_pool_readonly(device_label[r])>>)
    /\ Goto(r, "readonly_wait")
    /\ UNCHANGED <<pools, email, device_label, result, success, stdout, stderr, exc>>

\* lines 69-73 and 26-28: set_pool_readonly ends
ReadonlyReturn(r) ==
    /\ pc[r] = "readonly_wait"
    /\ \E o \in SubprocessOutcomes :
        LET rc == run_command(set_pool_readonly(device_label[r]), o) IN
        IF rc.raised
        THEN /\ result' = result
             /\ Emit(r, rc.events)
             /\ Throw(r, "inner_try", o.e)
        ELSE /\ exc' = exc
             /\ result' = [result EXCEPT ![r] = Some(rc.result)]
             /\ IF rc.result.returncode # 0
                THEN /\ Emit(r, rc.events \o
                          <<Mail("mail_error", "readonly",
                                 <<"Failed to set pool readonly. Disk will not be exported automatically.\n\nError:\n",
                                   rc.result.stderr, "\n\nBackup was successful:\n",
                                   Get(stdout[r]), "\n\n", Get(stderr[r])>>)>>)
                     /\ Goto(r, AfterDecryptAndBackup(NONE))
                ELSE /\ Emit(r, rc.events)
                     /\ Goto(r, AfterDecryptAndBackup(stdout[r]))
    /\ UNCHANGED <<pools, email, device_label, success, stdout, stderr>>

\* ExportCall that waits while another run is between import and the end of
\* its backup
ExportCall_Exclusive(r) ==
    /\ pc[r] = "export"
    /\ \A q \in Runs \ {r} :
          pc[q] \notin {"decrypt_and_backup", "decrypt_wait", "backup", "backup_wait"}
    /\ Emit(r, <<Log("log", <<"Exporting ", device_label[r]>>),
                 export_pool(device_label[r])>>)
    /\ Goto(r, "export_wait")
    /\ UNCHANGED <<pools, email, device_label, result, success, stdout, stderr, exc>>

\* lines 30-31: export_pool is invoked
ExportCall(r) ==
    /\ pc[r] = "export"
    /\ Emit(r, <<Log("log", <<"Exporting ", device_label[r]>>),
                 export_pool(device_label[r])>>)
    /\ Goto(r, "export_wait")
    /\ UNCHANGED <<pools, email, device_label, result, success, stdout, stderr, exc>>

\* lines 31-41: export_pool ends
ExportReturn(r) ==
    /\ pc[r] = "export_wait"
    /\ \E o \in SubprocessOutcomes :
        LET rc == run_command(export_pool(device_label[r]), o) IN
        IF rc.raised
        THEN /\ result' = result
             /\ Emit(r, rc.events)
             /\ Throw(r, "outer_try", o.e)
        ELSE /\ exc' = exc
             /\ result' = [result EXCEPT ![r] = Some(rc.result)]
             /\ IF rc.result.returncode # 0
                THEN /\ Emit(r, rc.events \o
                          <<Mail("mail_error", "export",
                                 <<"Failed to export pool.\n\nError:\n",
                                   rc.result.stderr>>)>>)
                     /\ Goto(r, "Aborted")
                ELSE /\ Emit(r, rc.events \o Completion(device_label[r], stdout[r]))
                     /\ Goto(r, "Done")
    /\ UNCHANGED <<pools, email, device_label, success, stdout, stderr>>

\* lines 74-76 (and 27-28): the handler of decrypt_and_backup
InnerExcept(r) ==
    /\ pc[r] = "inner_except"
    /\ IF stdout[r] = NONE \/ stderr[r] = NONE
       THEN /\ Emit(r, <<Raise("inner_except", UnboundLocalError)>>)
            /\ Throw(r, "inner_except", UnboundLocalError)
       ELSE /\ Emit(r, <<Mail("mail_exception", "unexpected",
                              <<Unexpected, StrE(exc[r]), "\n\nBackup output:\n",
                                Get(stdout[r]), "\n\n", Get(stderr[r])>>)>>)
            /\ Goto(r, AfterDecryptAndBackup(NONE))
            /\ exc' = exc
    /\ UNCHANGED <<pools, email, device_label, result, success, stdout, stderr>>

\* lines 43-44: the handler of import_decrypt_backup_export
OuterExcept(r) ==
    /\ pc[r] = "outer_except"
    /\ Emit(r, <<Mail("mail_error", "unexpected",
                      <<Unexpected, StrE(exc[r]), "\n">> \o format_exc(exc[r]))>>)
    /\ Goto(r, "Aborted")
    /\ UNCHANGED <<pools, email, device_label, result, success, stdout, stderr, exc>>

Next ==
    \E r \in Runs :
        \/ Lookup(r)
        \/ ImportCall(r)
        \/ ImportReturn(r)
        \/ DecryptCall(r)
        \/ DecryptReturn(r)
        \/ BackupCall(r)
        \/ BackupReturn(r)
        \/ ReadonlyCall(r)
        \/ ReadonlyReturn(r)
        \/ ExportCall(r)
        \/ ExportReturn(r)
        \/ InnerExcept(r)
        \/ OuterExcept(r)

Spec == Init /\ [][Next]_vars

----------------------------------------------------------------------------
(* Reading a run's events *)

T(r) == trace[r]
Pos(r) == DOMAIN trace[r]

IsCall(e, stage) == e.kind = "call" /\ e.stage = stage
IsAnyCall(e) == e.kind = "call"
IsRet(e, stage) == e.kind = "ret" /\ e.stage = stage
IsRetOk(e, stage) == IsRet(e, stage) /\ e.returncode = 0
IsRetFail(e, stage) == IsRet(e, stage) /\ e.returncode # 0
IsRaise(e, stage) == e.kind = "raise" /\ e.stage = stage
IsMail(e) == e.kind = "mail"
IsError(e, stage) == e.kind = "mail" /\ e.fn = "mail_error" /\ e.stage = stage
IsCompletion(e) == e.kind \in {"mail", "log"} /\ e.text[1] = Finished
IsCompletionMail(e) == e.kind = "mail" /\ e.fn = "mail" /\ e.text[1] = Finished

Embeds(text, v) == \E i \in DOMAIN text : text[i] = v

Count(r, P(_)) == Cardinality({i \in Pos(r) : P(T(r)[i])})
Has(r, P(_)) == \E i \in Pos(r) : P(T(r)[i])

\* the stages invoked by the run, in order
Invoked(r) ==
    LET calls == SelectSeq(T(r), IsAnyCall)
    IN  [i \in DOMAIN calls |-> calls[i].stage]

PoolCommands == {"import", "decrypt", "readonly", "export"}
Terminated(r) == pc[r] \in {"Done", "Aborted", "escaped"}

----------------------------------------------------------------------------
(* C1 *)

\* C1: when import, decrypt, set-read-only or export returns a nonzero exit
\* code, the run sends exactly one Error notification for that stage, invokes
\* nothing afterwards and emits no completion message; a failed backup (failed
\* datasets) is the one failure after which the run goes on to set-read-only.
C1_CommandFailureStops ==
    \A r \in Runs :
        /\ \A i \in Pos(r) : \A s \in PoolCommands :
              IsRetFail(T(r)[i], s) =>
                  /\ Count(r, LAMBDA e : IsError(e, s)) = 1
                  /\ \A j \in Pos(r) : j > i => ~IsAnyCall(T(r)[j])
                  /\ ~Has(r, IsCompletion)
                  /\ pc[r] = "Aborted"
        /\ Has(r, LAMBDA e : IsRetFail(e, "backup")) =>
              \/ pc[r] = "readonly"
              \/ Has(r, LAMBDA e : IsCall(e, "readonly"))

C1_Witness ==
    /\ Has(1, LAMBDA e : IsRetFail(e, "readonly"))
    /\ Has(1, LAMBDA e : IsRetFail(e, "backup"))
    /\ pc[1] = "Aborted"

----------------------------------------------------------------------------
(* C2 *)

\* C2: export is invoked only after set-read-only was invoked and returned 0
\* in the same run; after set-read-only returned nonzero or raised, export is
\* never invoked.
C2_ExportOnlyAfterReadonly ==
    \A r \in Runs :
        /\ \A j \in Pos(r) :
              IsCall(T(r)[j], "export") =>
                  \E c, i \in Pos(r) :
                      /\ c < i /\ i < j
                      /\ IsCall(T(r)[c], "readonly")
                      /\ IsRetOk(T(r)[i], "readonly")
        /\ (\/ Has(r, LAMBDA e : IsRetFail(e, "readonly"))
            \/ Has(r, LAMBDA e : IsRaise(e, "readonly")))
              => /\ ~Has(r, LAMBDA e : IsCall(e, "export"))
                 /\ pc[r] \notin {"export", "export_wait", "Done"}

C2_Witness ==
    /\ Has(1, LAMBDA e : IsCall(e, "export"))
    /\ Has(1, LAMBDA e : IsRetOk(e, "readonly"))
    /\ pc[1] = "export_wait"

----------------------------------------------------------------------------
(* C3 *)

----------------------------------------------------------------------------
(* C4 *)

\* C4: when the backup engine raises, the finished run has sent exactly one
\* notification, through mail_exception, whose text carries the message of
\* the raised error, and export was never invoked.
\* (The stack trace is added to the message by mail_exception itself and is
\* not part of the text composed at line 75; it is left out of the formula.)
C4_BackupExceptionNotified ==
    \A r \in Runs :
        (Terminated(r) /\ Has(r, LAMBDA e : IsRaise(e, "backup"))) =>
            /\ Count(r, IsMail) = 1
            /\ \A i \in Pos(r) :
                  IsMail(T(r)[i]) =>
                      /\ T(r)[i].fn = "mail_exception"
                      /\ Embeds(T(r)[i].text, exc[r][1].msg)
            /\ ~Has(r, LAMBDA e : IsCall(e, "export"))

----------------------------------------------------------------------------
(* C5 *)

\* C5: no exception escapes import_decrypt_backup_export: whatever raises
\* (a command, the engine, or the handler of decrypt_and_backup while it
\* handles an earlier exception), the exception is in a handler of the entry
\* point or the run has returned (Aborted); it is never propagated to the
\* caller.
C5_NoExceptionEscapes ==
    \A r \in Runs :
        /\ pc[r] # "escaped"
        /\ exc[r] # <<>> => pc[r] \in {"inner_except", "outer_except", "Aborted"}
        /\ Has(r, LAMBDA e : e.kind = "raise") => exc[r] # <<>>

C5_Witness ==
    /\ pc[1] = "Aborted"
    /\ Len(exc[1]) = 2
    /\ exc[1][2] = UnboundLocalError

----------------------------------------------------------------------------
(* C6 *)

AllStagesOk(r) ==
    /\ device_label[r] \in DOMAIN pools
    /\ Has(r, LAMBDA e : IsRetOk(e, "import"))
    /\ (pools[device_label[r]].passphrase \notin {NONE, Some("")})
          => Has(r, LAMBDA e : IsRetOk(e, "decrypt"))
    /\ Has(r, LAMBDA e : IsRet(e, "backup"))
    /\ Has(r, LAMBDA e : IsRetOk(e, "readonly"))
    /\ Has(r, LAMBDA e : IsRetOk(e, "export"))

\* C6: the completion message (mailed, or logged without email) is emitted
\* exactly in the runs that reach Done, which are the runs where import,
\* decrypt (with a passphrase), set-read-only and export returned 0 and the
\* engine returned; it is emitted at most once, right after export returned
\* 0, and never in a run that is Aborted.
C6_CompletionIffDone ==
    \A r \in Runs :
        /\ Count(r, IsCompletion) <= 1
        /\ Has(r, IsCompletion) <=> pc[r] = "Done"
        /\ pc[r] = "Done" <=> AllStagesOk(r)
        /\ \A i \in Pos(r) :
              IsCompletion(T(r)[i]) =>
                  /\ i > 1
                  /\ IsRetOk(T(r)[i - 1], "export")
        /\ pc[r] = "Aborted" => ~Has(r, IsCompletion)

C6_Witness ==
    /\ pc[1] = "Done"
    /\ email = NONE
    /\ stdout[1] = Some("")
    /\ Count(1, IsCompletion) = 1

----------------------------------------------------------------------------
(* C7 *)

\* C7: with a non-empty passphrase, import, decrypt, set-read-only and
\* export returning 0 and the engine returning success=true with empty
\* stderr, the run invokes exactly import, decrypt, backup, set-read-only,
\* export in that order, and then emits the completion message as its last
\* event; it sends no other notification.
C7_HappyPathSequence ==
    \A r \in Runs :
        ( /\ device_label[r] \in DOMAIN pools
          /\ pools[device_label[r]].passphrase \notin {NONE, Some("")}
          /\ \A s \in PoolCommands : Has(r, LAMBDA e : IsRetOk(e, s))
          /\ success[r] = Some(TRUE)
          /\ stderr[r] = Some("") )
        => /\ Invoked(r) = <<"import", "decrypt", "backup", "readonly", "export">>
           /\ Count(r, IsCompletion) = 1
           /\ IsCompletion(T(r)[Len(T(r))])
           /\ Count(r, IsMail) = (IF email = NONE THEN 0 ELSE 1)
           /\ \A i \in Pos(r) : IsMail(T(r)[i]) => IsCompletionMail(T(r)[i])

C7_Witness ==
    /\ device_label[1] \in DOMAIN pools
    /\ pools[device_label[1]].passphrase = Some("hunter2")
    /\ success[1] = Some(TRUE)
    /\ stderr[1] = Some("")
    /\ stdout[1] = Some("backup-out")
    /\ email # NONE
    /\ pc[1] = "Done"
    /\ Len(Invoked(1)) = 5

----------------------------------------------------------------------------
(* C8 *)

\* C8: for a device that is not a key of the pool configuration, the run
\* invokes no command and no engine, sends no Error or Exception
\* notification, and has sent exactly one notification when it returns: the
\* Info "not matching any configuration".
C8_UnknownDevice ==
    \A r \in Runs :
        device_label[r] \notin DOMAIN pools =>
            /\ ~Has(r, IsAnyCall)
            /\ \A i \in Pos(r) :
                  IsMail(T(r)[i]) =>
                      /\ T(r)[i].fn = "mail"
                      /\ Embeds(T(r)[i].text,
                           " that is not matching any configuration. You can unplug it again safely.")
                      /\ Embeds(T(r)[i].text, device_label[r])
            /\ Count(r, IsMail) <= 1
            /\ pc[r] \in {"idle", "start", "Aborted"}
            /\ pc[r] = "Aborted" => (Count(r, IsMail) = 1 /\ Len(T(r)) = 1)

C8_Witness ==
    /\ device_label[1] = "diskB"
    /\ pc[1] = "Aborted"
    /\ Count(1, IsMail) = 1

----------------------------------------------------------------------------
(* C9 *)

\* C9: with the passphrase None or "", decrypt is never invoked and the
\* invocation after import is the engine; with a non-empty passphrase,
\* decrypt is invoked at most once, it is the invocation that follows
\* import, the engine is invoked only after it, and it has been invoked
\* exactly once as soon as the run is past a successful import.
C9_DecryptOnlyWithPassphrase ==
    \A r \in Runs :
        device_label[r] \in DOMAIN pools =>
            LET pw == pools[device_label[r]].passphrase
                inv == Invoked(r)
                decrypts == Count(r, LAMBDA e : IsCall(e, "decrypt"))
            IN  /\ Len(inv) >= 1 => inv[1] = "import"
                /\ pw \in {NONE, Some("")} =>
                      /\ decrypts = 0
                      /\ Len(inv) >= 2 => inv[2] = "backup"
                /\ pw \notin {NONE, Some("")} =>
                      /\ decrypts <= 1
                      /\ Len(inv) >= 2 => inv[2] = "decrypt"
                      /\ Len(inv) >= 3 => inv[3] = "backup"
                      /\ (Has(r, LAMBDA e : IsRetOk(e, "import"))
                            /\ pc[r] # "decrypt_and_backup") => decrypts = 1

C9_Witness ==
    /\ device_label[1] \in DOMAIN pools
    /\ pools[device_label[1]].passphrase = Some("")
    /\ Len(Invoked(1)) >= 2
    /\ Invoked(1)[2] = "backup"

----------------------------------------------------------------------------
(* C10 *)

\* C10: with email configured and send_autobackup_output false, the
\* completion notification does not carry the engine's stdout and the
\* backup-stage Error notification carries neither its stdout nor its
\* stderr; with send_autobackup_output true, the completion notification
\* ends with the captured stdout and the backup-stage Error notification
\* ends with stderr, or with stdout when stderr is empty.
C10_OutputGating ==
    \A r \in Runs : \A i \in Pos(r) :
        LET e == T(r)[i] IN
        /\ email = Some([send_autobackup_output |-> FALSE]) =>
              /\ IsCompletionMail(e) =>
                    /\ Truthy(Get(stdout[r])) => ~Embeds(e.text, Get(stdout[r]))
                    /\ e.text[Len(e.text)] = " now."
              /\ IsError(e, "backup") =>
                    /\ Truthy(Get(stdout[r])) => ~Embeds(e.text, Get(stdout[r]))
                    /\ Truthy(Get(stderr[r])) => ~Embeds(e.text, Get(stderr[r]))
                    /\ Len(e.text) = 2
        /\ email = Some([send_autobackup_output |-> TRUE]) =>
              /\ IsCompletionMail(e) => e.text[Len(e.text)] = Get(stdout[r])
              /\ IsError(e, "backup") =>
                    e.text[Len(e.text)] =
                        (IF Get(stderr[r]) # "" THEN Get(stderr[r]) ELSE Get(stdout[r]))

C10_Witness ==
    /\ email = Some([send_autobackup_output |-> FALSE])
    /\ stdout[1] = Some("backup-out")
    /\ stderr[1] = Some("backup-err")
    /\ pc[1] = "Done"
    /\ Has(1, LAMBDA e : IsError(e, "backup"))
    /\ Has(1, IsCompletionMail)

----------------------------------------------------------------------------
(* C11 *)

\* mail_util: what a call of mail / mail_error / mail_exception does with the
\* notification configuration it is given: without one it only logs the
\* message, with one it hands the message to the mail transport
mail_util(ev) ==
    IF ev.email = NONE
    THEN Log("log", ev.text)
    ELSE [kind |-> "smtp", stage |-> ev.stage, fn |-> ev.fn, text |-> ev.text]

\* the run's events with every notifier call replaced by what it does
Effects(r) == [i \in Pos(r) |-> IF IsMail(T(r)[i]) THEN mail_util(T(r)[i]) ELSE T(r)[i]]

Logged(r, fragment) ==
    \E i \in Pos(r) : Effects(r)[i].kind = "log" /\ Embeds(Effects(r)[i].text, fragment)

\* C11: without an email configuration nothing is handed to the mail
\* transport, and every notification path ends in a log call: the unknown
\* device, a failed import, decrypt, set-read-only or export, a degraded
\* backup, the completion and an unexpected exception.
C11_NoEmailMeansLogOnly ==
    \A r \in Runs :
        email = NONE =>
            /\ \A i \in Pos(r) : Effects(r)[i].kind # "smtp"
            /\ (device_label[r] \notin DOMAIN pools /\ pc[r] = "Aborted") =>
                  Logged(r, " that is not matching any configuration. You can unplug it again safely.")
            /\ Has(r, LAMBDA e : IsRetFail(e, "import")) =>
                  Logged(r, "Failed to import pool. Backup not yet run.\n\nError:\n")
            /\ Has(r, LAMBDA e : IsRetFail(e, "decrypt")) =>
                  Logged(r, "Failed to decrypt pool. Backup not yet run.\n\nError:\n")
            /\ Has(r, LAMBDA e : IsRetFail(e, "readonly")) =>
                  Logged(r, "Failed to set pool readonly. Disk will not be exported automatically.\n\nError:\n")
            /\ Has(r, LAMBDA e : IsRetFail(e, "export")) =>
                  Logged(r, "Failed to export pool.\n\nError:\n")
            /\ Has(r, LAMBDA e : IsRet(e, "backup") /\ (e.returncode # 0 \/ e.stderr # "")) =>
                  /\ Logged(r, AutobackupError)
                  /\ ~Has(r, LAMBDA e : IsMail(e) /\ e.stage = "backup")
            /\ pc[r] = "Done" =>
                  /\ Logged(r, Finished)
                  /\ ~Has(r, LAMBDA e : IsMail(e) /\ e.stage = "complete")
            /\ (exc[r] # <<>> /\ pc[r] = "Aborted") => Logged(r, Unexpected)

C11_Witness ==
    /\ email = NONE
    /\ pc[1] = "Done"
    /\ Has(1, LAMBDA e : IsRetFail(e, "backup"))
    /\ Logged(1, AutobackupError)
    /\ Logged(1, Finished)

----------------------------------------------------------------------------
(* C12 *)

StageRank(stage) ==
    CASE stage = "import"   -> 1
      [] stage = "decrypt"  -> 2
      [] stage = "backup"   -> 3
      [] stage = "readonly" -> 4
      [] stage = "export"   -> 5

\* C12: whatever the exit codes and exceptions, a run invokes import,
\* decrypt, backup, set-read-only and export at most once each and only in
\* that order, and once it has aborted (or an exception is being handled) it
\* invokes nothing further.
C12_LinearNoRetry ==
    \A r \in Runs :
        /\ \A i, j \in DOMAIN Invoked(r) :
              i < j => StageRank(Invoked(r)[i]) < StageRank(Invoked(r)[j])
        /\ \A i, j \in Pos(r) :
              ( /\ i < j
                /\ \/ T(r)[i].kind = "raise"
                   \/ \E s \in PoolCommands : IsRetFail(T(r)[i], s) )
              => ~IsAnyCall(T(r)[j])
        /\ pc[r] = "Aborted" => ~IsAnyCall(T(r)[Len(T(r))])

C12_Witness ==
    /\ Invoked(1) = <<"import", "decrypt", "backup", "readonly">>
    /\ Has(1, LAMBDA e : IsRaise(e, "readonly"))
    /\ pc[1] = "Aborted"

----------------------------------------------------------------------------
(* C13 *)

\* The entry point is called a second time, once the first run has returned,
\* for the same device and with a configuration that differs from the first
\* one only in the passphrase of a pool.
Retrigger ==
    /\ pc[1] \in {"Done", "Aborted"}
    /\ pc[2] = "idle"
    /\ \E d \in DOMAIN pools : \E p \in Passphrases \ {pools[d].passphrase} :
          pools' = [pools EXCEPT ![d].passphrase = p]
    /\ pc' = [pc EXCEPT ![2] = "start"]
    /\ UNCHANGED <<email, device_label, trace, result, success, stdout, stderr, exc>>

NextPair == Next \/ Retrigger

SpecPair == Init /\ [][NextPair]_vars

\* the texts the pipeline composes in an event: an argument vector, a log
\* text or a notification text
Composed(e) ==
    IF e.kind = "call" THEN e.argv
    ELSE IF e.kind \in {"log", "mail"} THEN e.text
    ELSE <<>>

\* what the external tools and the engine answered in a run
Outcomes(r) ==
    <<SelectSeq(T(r), LAMBDA e : e.kind \in {"ret", "raise"}), success[r], stdout[r], stderr[r]>>

\* the run's events without the data written to the input channels
Redacted(r) ==
    [i \in Pos(r) |->
        IF T(r)[i].kind = "call"
        THEN [kind |-> "call", stage |-> T(r)[i].stage, argv |-> T(r)[i].argv]
        ELSE T(r)[i]]

\* the run that is using the configuration of the current state
Current == IF pc[2] = "idle" THEN 1 ELSE 2

\* C13: the passphrase goes to the input channel of load-key and nowhere
\* else: it is in no argument vector, log text or notification text of the
\* run, on any path; and two runs whose configurations differ only in the
\* passphrase, given the same answers by the tools, produce the same
\* argument vectors, log texts and notification texts.
C13_PassphraseOnlyOnInput ==
    /\ LET r == Current IN
       device_label[r] \in DOMAIN pools =>
          LET pw == pools[device_label[r]].passphrase IN
          /\ pw \notin {NONE, Some("")} =>
                \A i \in Pos(r) : ~Embeds(Composed(T(r)[i]), Get(pw))
          /\ \A i \in Pos(r) :
                (T(r)[i].kind = "call" /\ T(r)[i].input # NONE) =>
                    /\ T(r)[i].stage = "decrypt"
                    /\ T(r)[i].input = pw
          /\ \A i \in Pos(r) : IsCall(T(r)[i], "decrypt") => T(r)[i].input = pw
    /\ ( /\ pc[1] \in {"Done", "Aborted"}
         /\ pc[2] \in {"Done", "Aborted"}
         /\ Outcomes(1) = Outcomes(2) )
       => Redacted(1) = Redacted(2)

C13_Witness ==
    /\ pc[1] = "Done"
    /\ pc[2] = "Done"
    /\ Outcomes(1) = Outcomes(2)
    /\ \E i \in Pos(1) : IsCall(T(1)[i], "decrypt") /\ T(1)[i].input = Some("hunter2")
    /\ \E i \in Pos(2) : IsCall(T(2)[i], "decrypt") /\ T(2)[i].input = Some("swordfish")

----------------------------------------------------------------------------
(* C14 *)

IsCmdRet(e) == e.kind = "ret" /\ e.stage \in PoolCommands
IsErrorLog(e) == e.kind = "log" /\ e.level = "error"

\* the CompletedProcess of the process that ended last
LastCompleted(r) ==
    LET rets == SelectSeq(T(r), IsCmdRet)
    IN  IF rets = <<>> THEN NONE
        ELSE Some([returncode |-> rets[Len(rets)].returncode,
                   stdout |-> rets[Len(rets)].stdout,
                   stderr |-> rets[Len(rets)].stderr])

\* C14: for a command that ran and exited nonzero, run_command raises
\* nothing, returns a result with the exit code, stdout and stderr of the
\* process, and logs exactly one error; for exit code 0 it returns the
\* result and logs no error.
C14_RunCommandCapturesFailure ==
    \A r \in Runs :
        /\ result[r] = LastCompleted(r)
        /\ Count(r, IsErrorLog) = Count(r, LAMBDA e : IsCmdRet(e) /\ e.returncode # 0)
        /\ \A i \in Pos(r) :
              IsCmdRet(T(r)[i]) =>
                  /\ ~Has(r, LAMBDA e : IsRaise(e, T(r)[i].stage))
                  /\ T(r)[i].returncode # 0 =>
                        /\ i < Len(T(r))
                        /\ IsErrorLog(T(r)[i + 1])
                        /\ Embeds(T(r)[i + 1].text, ToString(T(r)[i].returncode))
                        /\ exc[r] = <<>>
                  /\ (T(r)[i].returncode = 0 /\ i < Len(T(r))) => ~IsErrorLog(T(r)[i + 1])

C14_Witness ==
    /\ result[1] = Some([returncode |-> 2, stdout |-> "partial output",
                         stderr |-> "cannot open pool"])
    /\ Count(1, IsErrorLog) = 1
    /\ Has(1, LAMBDA e : IsRetFail(e, "export"))

----------------------------------------------------------------------------
(* C15 *)

IsAutobackupError(e) == e.kind \in {"mail", "log"} /\ e.text[1] = AutobackupError

\* C15: once the backup stage has reported "ZFS autobackup error! Disk will
\* not be exported automatically" (by mail_error, or in the log without
\* email), export is not invoked afterwards and no completion message
\* follows.
C15_ReportedErrorBlocksExport ==
    \A r \in Runs : \A i, j \in Pos(r) :
        (IsAutobackupError(T(r)[i]) /\ i < j) =>
            /\ ~IsCall(T(r)[j], "export")
            /\ ~IsCompletion(T(r)[j])

----------------------------------------------------------------------------
(* C16 *)

\* C16: the backup is degraded exactly when the engine reports a nonzero
\* number of failed datasets or wrote to stderr: success is true exactly for
\* zero failed datasets, and with email configured a backup-stage Error
\* notification is sent exactly for a degraded backup; a clean backup sends
\* nothing at the backup stage and only logs its stdout, when there is some.
C16_DegradedClassification ==
    \A r \in Runs : \A i \in Pos(r) :
        IsRet(T(r)[i], "backup") =>
            LET b == T(r)[i]
                degraded == b.returncode # 0 \/ b.stderr # ""
            IN  /\ success[r] = Some(b.returncode = 0)
                /\ email # NONE =>
                      /\ degraded <=> Has(r, LAMBDA e : IsError(e, "backup"))
                      /\ degraded =>
                            (i < Len(T(r)) /\ IsError(T(r)[i + 1], "backup"))
                      /\ Count(r, LAMBDA e : IsMail(e) /\ e.stage = "backup")
                            = (IF degraded THEN 1 ELSE 0)
                /\ (~degraded /\ b.stdout # "") =>
                      /\ i < Len(T(r))
                      /\ T(r)[i + 1] = Log("log", <<b.stdout>>)
                /\ (~degraded /\ b.stdout = "" /\ i < Len(T(r))) =>
                      T(r)[i + 1].kind = "log" /\ T(r)[i + 1].text[1] = "Setting pool "

C16_Witness ==
    /\ email # NONE
    /\ success[1] = Some(TRUE)
    /\ stderr[1] = Some("backup-err")
    /\ Has(1, LAMBDA e : IsError(e, "backup"))
    /\ pc[1] = "readonly"

----------------------------------------------------------------------------
(* C17 *)

\* C17: when import or export cannot be invoked and raises, the run ends
\* Aborted having sent for it one notification of the Exception category
\* (mail_exception) that carries the error's message and a stack trace;
\* nothing is invoked after the raise and no completion message is emitted.
C17_EnvelopeExceptionNotified ==
    \A r \in Runs : \A i \in Pos(r) :
        ((IsRaise(T(r)[i], "import") \/ IsRaise(T(r)[i], "export")) /\ Terminated(r)) =>
            /\ pc[r] = "Aborted"
            /\ \A j \in Pos(r) : j > i => ~IsAnyCall(T(r)[j])
            /\ ~Has(r, IsCompletion)
            /\ \E j \in Pos(r) :
                  /\ j > i
                  /\ IsMail(T(r)[j])
                  /\ T(r)[j].fn = "mail_exception"
                  /\ Embeds(T(r)[j].text, T(r)[i].e.msg)
                  /\ Embeds(T(r)[j].text, "Traceback (most recent call last):")

----------------------------------------------------------------------------
(* C18 *)

\* C18: for an exception raised during decrypt, the engine run or
\* set-read-only, the notification sent for it reports the message of that
\* exception, and the backup output captured so far: stdout and stderr of
\* the backup when set-read-only raised, and nothing, without a second
\* exception, when the engine had not returned yet.
C18_InnerExceptionCarriesOutput ==
    \A r \in Runs : \A i \in Pos(r) :
        ( /\ \E s \in {"decrypt", "backup", "readonly"} : IsRaise(T(r)[i], s)
          /\ Terminated(r) )
        => /\ exc[r] = <<T(r)[i].e>>
           /\ \E j \in Pos(r) :
                 /\ j > i
                 /\ IsMail(T(r)[j])
                 /\ T(r)[j].text[1] = Unexpected
                 /\ T(r)[j].text[2] = T(r)[i].e.msg
                 /\ IsRaise(T(r)[i], "readonly") =>
                       /\ Embeds(T(r)[j].text, Get(stdout[r]))
                       /\ Embeds(T(r)[j].text, Get(stderr[r]))

----------------------------------------------------------------------------
(* C19 *)

\* The program runs on: every step that can be taken is taken, every
\* external command and the engine eventually return or raise.
FairSpec == Spec /\ WF_vars(Next)

\* the messages meant for the operator
IsOperatorMessage(e) == IsMail(e) \/ IsCompletion(e) \/ IsAutobackupError(e)
\* the message that reports how the run ended
IsOutcomeMessage(e) ==
    \/ IsCompletion(e)
    \/ IsMail(e) /\ e.stage \in {"lookup", "unexpected"} \cup PoolCommands

\* C19: every run eventually ends in Done or Aborted, and a run that has
\* ended has emitted exactly one outcome message (the unknown-device Info,
\* one stage Error, one exception notification or the completion message),
\* preceded by at most one backup-stage Error: one or two operator messages
\* in all.
C19_TerminatesWithOneOutcome ==
    /\ \A r \in Runs : (pc[r] = "start") ~> (pc[r] \in {"Done", "Aborted"})
    /\ [](\A r \in Runs :
            pc[r] \in {"Done", "Aborted", "escaped"} =>
                /\ pc[r] # "escaped"
                /\ Count(r, IsOutcomeMessage) = 1
                /\ IsOutcomeMessage(T(r)[Len(T(r))])
                /\ Count(r, IsAutobackupError) <= 1
                /\ Count(r, IsOperatorMessage)
                      = Count(r, IsOutcomeMessage) + Count(r, IsAutobackupError)
                /\ Count(r, IsOperatorMessage) \in {1, 2}
                /\ pc[r] = "Done" <=> IsCompletion(T(r)[Len(T(r))]))

C19_Witness ==
    /\ pc[1] = "Aborted"
    /\ Count(1, IsOperatorMessage) = 2
    /\ Has(1, IsAutobackupError)
    /\ Has(1, LAMBDA e : IsMail(e) /\ e.fn = "mail_exception")

----------------------------------------------------------------------------
(* C20 *)

\* Two triggers for the same device arrive together: both runs are started.
InitConc ==
    /\ pools \in [KnownLabels -> PoolConfigs]
    /\ email \in EmailConfigs
    /\ \E d \in Labels : device_label = [r \in Runs |-> d]
    /\ pc = [r \in Runs |-> "start"]
    /\ trace = [r \in Runs |-> <<>>]
    /\ result = [r \in Runs |-> NONE]
    /\ success = [r \in Runs |-> NONE]
    /\ stdout = [r \in Runs |-> NONE]
    /\ stderr = [r \in Runs |-> NONE]
    /\ exc = [r \in Runs |-> <<>>]

SpecConc == InitConc /\ [][Next]_vars

\* the next step of run r
RunStep(r) ==
    \/ Lookup(r) \/ ImportCall(r) \/ ImportReturn(r)
    \/ DecryptCall(r) \/ DecryptReturn(r)
    \/ BackupCall(r) \/ BackupReturn(r)
    \/ ReadonlyCall(r) \/ ReadonlyReturn(r)
    \/ ExportCall(r) \/ ExportReturn(r)
    \/ InnerExcept(r) \/ OuterExcept(r)

\* C20: the pipeline has no lock and no per-device state: a run that has
\* not ended can always take its next step, wherever the other run for the
\* same device is; in particular a run about to invoke set-read-only or
\* export does so while the other run is between its import and the return
\* of its engine.
C20_NoMutualExclusion ==
    \A r \in Runs :
        /\ pc[r] \notin {"Done", "Aborted", "escaped", "idle"} => ENABLED RunStep(r)
        /\ pc[r] = "readonly" => ENABLED ReadonlyCall(r)
        /\ pc[r] = "export" => ENABLED ExportCall(r)

C20_Witness ==
    /\ device_label[1] = device_label[2]
    /\ pc[1] = "export_wait"
    /\ IsCall(T(1)[Len(T(1))], "export")
    /\ pc[2] = "backup_wait"
    /\ Has(2, LAMBDA e : IsRetOk(e, "import"))

====
